---- MODULE Spec2Model ----
(***************************************************************************)
(* Orientation sensor adapter (startCompassListener) and the CompassPopup  *)
(* component of guardain, src/app/_components/compass-popup.tsx.           *)
(*                                                                         *)
(* The window's listener table, the platform's permission promise and the  *)
(* sensor events are the environment; each popup instance is one session.  *)
(* Angles are held in fixed point, Scale units per degree, so that         *)
(* beta*gamma/90 is exact for samples given in whole degrees.              *)
(***************************************************************************)
EXTENDS Integers, FiniteSets, Sequences, TLC

\* ------------------------------------------------------------------ bounds
NumSessions == 2     \* popup instances (startCompassListener calls)
MaxCleanups == 2     \* invocations of one session's cleanup handle

\* --------------------------------------------------------- program numbers
Scale == 90          \* the divisor of beta*gamma; fixed-point units per degree
FullTurn == 360      \* degrees in the wrap of the heading
HalfTurn == 180      \* degrees in pi radians
NearestPoliceBearing == 45   \* const stationBearing of NearestPolice

Sessions == 1..NumSessions

\* event types of the window's listener table
ABS == "deviceorientationabsolute"
WK == "deviceorientation"
EventTypes == {ABS, WK}

\* ------------------------------------------------------- JavaScript values
Null == [k |-> "null", v |-> 0]        \* null or undefined (x == null)
NaN == [k |-> "nan", v |-> 0]
PosInf == [k |-> "inf", v |-> 1]
NegInf == [k |-> "inf", v |-> -1]
Num(x) == [k |-> "num", v |-> x]

IsNullish(x) == x.k = "null"
isNaN(x) == x.k = "nan"

Deg(d) == Num(d * Scale)

\* ----------------------------------------------------------- sensor inputs
\* the absolute-orientation events: two valid samples, one without the
\* absolute flag and one for each missing angle, in whole degrees
Sample(abs, a, b, g) == [absolute |-> abs, alpha |-> a, beta |-> b, gamma |-> g]
AbsoluteEvents ==
  {Sample(TRUE, Num(0), Num(45), Num(-30)), Sample(TRUE, Num(350), Num(45), Num(-30)),
   Sample(FALSE, Num(0), Num(45), Num(-30)), Sample(TRUE, Null, Num(45), Num(-30)),
   Sample(TRUE, Num(0), Null, Num(-30)), Sample(TRUE, Num(0), Num(45), Null)}

WebkitHeadings == {Null, NaN, PosInf, Deg(90)}
WebkitEvents == [webkitCompassHeading : WebkitHeadings]

\* samples of the normalisation taken alone, in whole degrees
AlphaValues == {0, 1, 90, 180, 359}
BetaValues == {-180, -90, -1, 0, 1, 45, 179}
GammaValues == {-90, -45, -1, 0, 1, 89}
HeadingSamples ==
  [absolute : BOOLEAN, alpha : {Num(x) : x \in AlphaValues},
   beta : {Num(x) : x \in BetaValues}, gamma : {Num(x) : x \in GammaValues}]

VARIABLES
  hasAPI,                 \* window["DeviceOrientationEvent"] is defined
  hasRequestPermission,   \* DeviceOrientationEvent.requestPermission is a function
  stage,                  \* per popup: "idle" (not mounted), "open", "closed"
  cleanup,                \* per popup: what startCompassListener returned
  perm,                   \* per session: state of the permission promise
  listeners,              \* the window's listener table: <<type, session>>
  deviceHeading,          \* per popup: useState<number | null>(null)
  isSupported,            \* per popup: useState(true)
  active,                 \* per session: source of the first delivered sample
  lastSource,             \* per session: source of the latest callback call
  cleanups,               \* per session: invocations of the cleanup handle
  addCalls,               \* per session: runs of addListeners()
  lastOp,                 \* the latest step: its operation and session
  invoked,                \* the sessions whose callback the latest step invoked
  calls,                  \* what the listener run by the latest step called, in order
  sample,                 \* the event given to absoluteListener taken alone
  handled,                \* what absoluteListener taken alone did with it
  stationBearing,         \* the popup's stationBearing prop, in 1/Scale degree
  variant,                \* which of the three CompassPopup components renders
  hasGeolocation,         \* 'geolocation' in navigator
  pc,                     \* where Home's fetchData is: "idle", "position",
                          \* "fetch", "json", "done"
  geoRequests,            \* calls of navigator.geolocation.getCurrentPosition
  threat,                 \* the promise of the threat-level fetch
  police,                 \* the promise of getNearestPoliceStation
  data,                   \* Home's state data
  userLat,                \* Home's state userLat
  userLon,                \* Home's state userLon
  loading,                \* Home's state loading
  noPermission,           \* Home's state noPermission
  route,                  \* the arguments of a call of bearing, in degrees
  brng                    \* what the call returned, in degrees

compassVars == <<hasAPI, hasRequestPermission, stage, cleanup, perm, listeners,
                 deviceHeading, isSupported, active, lastSource, cleanups,
                 addCalls, lastOp, invoked, calls>>
headingVars == <<sample, handled>>
rotationVars == <<stationBearing, variant>>
homeVars == <<hasGeolocation, pc, geoRequests, threat, police, data, userLat,
              userLon, loading, noPermission>>
bearingVars == <<route, brng>>
vars == <<compassVars, headingVars, rotationVars, homeVars, bearingVars>>

platform == <<hasAPI, hasRequestPermission>>
\* what the steps of the popup and its adapter leave alone
nonCompassVars == <<headingVars, rotationVars, homeVars, bearingVars>>

Op(o, s) == [op |-> o, s |-> s]

\* ------------------------------------------------ absolute-orientation path
\* let compass = -(e.alpha + e.beta * e.gamma / 90), in 1/Scale degree
RawCompass(e) == -(e.alpha.v * Scale + e.beta.v * e.gamma.v)

\* faulty variant of Wrap: the remainder operator, which keeps the sign of compass
WrapTruncating(c) ==
  IF c >= 0 THEN c % (FullTurn * Scale) ELSE -((-c) % (FullTurn * Scale))

\* compass -= Math.floor(compass / 360) * 360
Wrap(c) == c - (c \div (FullTurn * Scale)) * (FullTurn * Scale)

Dropped == [invoke |-> FALSE, compass |-> Null, removes |-> {}]

\* faulty variant of absoluteListener: the absolute flag is not looked at
absoluteListenerAnyFrame(e) ==
  IF IsNullish(e.alpha) \/ IsNullish(e.beta) \/ IsNullish(e.gamma)
  THEN Dropped
  ELSE [invoke |-> TRUE, compass |-> Num(Wrap(RawCompass(e))), removes |-> {WK}]

\* faulty variant of absoluteListener: the vendor listener is left attached
absoluteListenerKeepsOther(e) ==
  IF ~e.absolute \/ IsNullish(e.alpha) \/ IsNullish(e.beta) \/ IsNullish(e.gamma)
  THEN Dropped
  ELSE [invoke |-> TRUE, compass |-> Num(Wrap(RawCompass(e))), removes |-> {}]

\* the effect of absoluteListener on one event: whether it invokes the
\* callback, with which heading, and the listener types it detaches
absoluteListener(e) ==
  IF ~e.absolute \/ IsNullish(e.alpha) \/ IsNullish(e.beta) \/ IsNullish(e.gamma)
  THEN Dropped
  ELSE [invoke |-> TRUE, compass |-> Num(Wrap(RawCompass(e))), removes |-> {WK}]

\* ------------------------------------------------------ vendor heading path
\* faulty variant of webkitListener: the absolute listener is left attached
webkitListenerKeepsOther(e) ==
  LET heading == e.webkitCompassHeading IN
  IF ~IsNullish(heading) /\ ~isNaN(heading)
  THEN [invoke |-> TRUE, compass |-> heading, removes |-> {}]
  ELSE Dropped

webkitListener(e) ==
  LET heading == e.webkitCompassHeading IN
  IF ~IsNullish(heading) /\ ~isNaN(heading)
  THEN [invoke |-> TRUE, compass |-> heading, removes |-> {ABS}]
  ELSE Dropped

\* ------------------------------------------------- order inside a listener
\* a call of window.removeEventListener for type t, and a call of callback
Remove(t) == <<"removeEventListener", t>>
Callback == <<"callback", "compass">>

\* faulty variant of absoluteListenerCalls: the callback comes first
absoluteListenerCallsCallbackFirst(e) ==
  IF absoluteListener(e).invoke THEN <<Callback, Remove(WK)>> ELSE <<>>

\* the calls absoluteListener makes on one event, in program order:
\* removeEventListener("deviceorientation", webkitListener); callback(compass)
absoluteListenerCalls(e) ==
  IF absoluteListener(e).invoke THEN <<Remove(WK), Callback>> ELSE <<>>

\* the calls webkitListener makes on one event, in program order:
\* callback(compass); removeEventListener("deviceorientationabsolute", ...)
webkitListenerCalls(e) ==
  IF webkitListener(e).invoke THEN <<Callback, Remove(ABS)>> ELSE <<>>

\* ------------------------------------------------------------ registration
addListeners(s) == {<<ABS, s>>, <<WK, s>>}

\* faulty variant of cleanupHandle: only the absolute listener is removed
cleanupHandleAbsoluteOnly(s, L) == L \ {<<ABS, s>>}

\* the closure startCompassListener returns, applied to the listener table L
cleanupHandle(s, L) == L \ {<<ABS, s>>, <<WK, s>>}

\* faulty variant of startCompassListener: addListeners() runs before the grant
startCompassListenerEager(s, api, reqPerm) ==
  IF ~api THEN [cleanup |-> "null", perm |-> "none", adds |-> {}]
  ELSE IF reqPerm
       THEN [cleanup |-> "handle", perm |-> "pending", adds |-> addListeners(s)]
       ELSE [cleanup |-> "handle", perm |-> "none", adds |-> addListeners(s)]

\* startCompassListener: what it returns, the promise it leaves pending and
\* the listeners it attaches before returning
startCompassListener(s, api, reqPerm) ==
  IF ~api THEN [cleanup |-> "null", perm |-> "none", adds |-> {}]
  ELSE IF reqPerm THEN [cleanup |-> "handle", perm |-> "pending", adds |-> {}]
  ELSE [cleanup |-> "handle", perm |-> "none", adds |-> addListeners(s)]

\* ------------------------------------------------------------------- Init
InitPopups ==
  /\ stage = [s \in Sessions |-> "idle"]
  /\ cleanup = [s \in Sessions |-> "undefined"]
  /\ perm = [s \in Sessions |-> "none"]
  /\ listeners = {}
  /\ deviceHeading = [s \in Sessions |-> Null]
  /\ isSupported = [s \in Sessions |-> TRUE]
  /\ active = [s \in Sessions |-> "none"]
  /\ lastSource = [s \in Sessions |-> "none"]
  /\ cleanups = [s \in Sessions |-> 0]
  /\ addCalls = [s \in Sessions |-> 0]
  /\ lastOp = Op("init", 0)
  /\ invoked = {}
  /\ calls = <<>>

\* NearestPolice renders <CompassPopup stationBearing={45} />
InitProps ==
  /\ stationBearing = NearestPoliceBearing * Scale
  /\ variant = "compass-popup"

\* Home's useState initial values, before its effect has run
InitPage ==
  /\ hasGeolocation = TRUE
  /\ pc = "idle"
  /\ geoRequests = 0
  /\ threat = "none"
  /\ police = "none"
  /\ data = Null
  /\ userLat = Null
  /\ userLon = Null
  /\ loading = 1
  /\ noPermission = FALSE

\* bearing has not been called
InitNoCall ==
  /\ route = Null
  /\ brng = Null

Init ==
  /\ hasAPI \in BOOLEAN
  /\ hasRequestPermission \in BOOLEAN
  /\ hasAPI = FALSE => hasRequestPermission = FALSE
  /\ InitPopups
  /\ sample = Null
  /\ handled = Dropped
  /\ InitProps
  /\ InitPage
  /\ InitNoCall

\* ---------------------------------------------------------------- actions
\* faulty variant of Mount: the absent API is not reported to the popup
MountKeepsSupported(s) ==
  /\ stage[s] = "idle"
  /\ stage' = [stage EXCEPT ![s] = "open"]
  /\ IF ~hasAPI
     THEN UNCHANGED <<isSupported, cleanup, perm, listeners, addCalls>>
     ELSE LET r == startCompassListener(s, hasAPI, hasRequestPermission) IN
          /\ cleanup' = [cleanup EXCEPT ![s] = r.cleanup]
          /\ perm' = [perm EXCEPT ![s] = r.perm]
          /\ listeners' = listeners \cup r.adds
          /\ addCalls' = [addCalls EXCEPT ![s] = IF r.adds # {} THEN @ + 1 ELSE @]
          /\ isSupported' = [isSupported EXCEPT
                               ![s] = IF r.cleanup = "null" THEN FALSE ELSE @]
  /\ lastOp' = Op("mount", s)
  /\ invoked' = {}
  /\ calls' = <<>>
  /\ UNCHANGED <<platform, deviceHeading, active, lastSource, cleanups>>
  /\ UNCHANGED nonCompassVars

\* CompassPopup's useEffect body, run once when the popup is mounted
Mount(s) ==
  /\ stage[s] = "idle"
  /\ stage' = [stage EXCEPT ![s] = "open"]
  /\ IF ~hasAPI
     THEN /\ isSupported' = [isSupported EXCEPT ![s] = FALSE]
          /\ UNCHANGED <<cleanup, perm, listeners, addCalls>>
     ELSE LET r == startCompassListener(s, hasAPI, hasRequestPermission) IN
          /\ cleanup' = [cleanup EXCEPT ![s] = r.cleanup]
          /\ perm' = [perm EXCEPT ![s] = r.perm]
          /\ listeners' = listeners \cup r.adds
          /\ addCalls' = [addCalls EXCEPT ![s] = IF r.adds # {} THEN @ + 1 ELSE @]
          /\ isSupported' = [isSupported EXCEPT
                               ![s] = IF r.cleanup = "null" THEN FALSE ELSE @]
  /\ lastOp' = Op("mount", s)
  /\ invoked' = {}
  /\ calls' = <<>>
  /\ UNCHANGED <<platform, deviceHeading, active, lastSource, cleanups>>
  /\ UNCHANGED nonCompassVars

\* the permission promise resolves: the .then callback runs
PermissionResolved(s, response) ==
  /\ perm[s] = "pending"
  /\ perm' = [perm EXCEPT ![s] = response]
  /\ listeners' = IF response = "granted"
                  THEN listeners \cup addListeners(s)
                  ELSE listeners
  /\ addCalls' = [addCalls EXCEPT ![s] = IF response = "granted" THEN @ + 1 ELSE @]
  /\ lastOp' = Op("resolved", 0)
  /\ invoked' = {}
  /\ calls' = <<>>
  /\ UNCHANGED <<platform, stage, cleanup, deviceHeading, isSupported, active,
                 lastSource, cleanups>>
  /\ UNCHANGED nonCompassVars

\* faulty variant of PermissionRejected: the rejection is handled as a grant
PermissionRejectedAttaches(s) ==
  /\ perm[s] = "pending"
  /\ perm' = [perm EXCEPT ![s] = "rejected"]
  /\ listeners' = listeners \cup addListeners(s)
  /\ lastOp' = Op("rejected", 0)
  /\ invoked' = {}
  /\ calls' = <<>>
  /\ UNCHANGED <<platform, stage, cleanup, deviceHeading,
                 isSupported, active, lastSource, cleanups, addCalls>>
  /\ UNCHANGED nonCompassVars

\* the permission promise rejects: no rejection handler is registered
PermissionRejected(s) ==
  /\ perm[s] = "pending"
  /\ perm' = [perm EXCEPT ![s] = "rejected"]
  /\ lastOp' = Op("rejected", 0)
  /\ invoked' = {}
  /\ calls' = <<>>
  /\ UNCHANGED <<platform, stage, cleanup, listeners, deviceHeading,
                 isSupported, active, lastSource, cleanups, addCalls>>
  /\ UNCHANGED nonCompassVars

\* the sessions whose listener for event type t is attached when an event of
\* that type is dispatched on window
Handlers(t) == {s \in Sessions : <<t, s>> \in listeners}

\* the sessions whose callback the listeners of type t invoke on an event on
\* which one listener has the effect fx
Invoked(t, fx) == IF fx.invoke THEN Handlers(t) ELSE {}

\* faulty variant of Detach: the other source is removed for every session
DetachGlobal(t, fx) ==
  {l \in listeners : ~(Handlers(t) # {} /\ l[1] \in fx.removes)}

\* window.removeEventListener by every listener of type t that handled the event
Detach(t, fx) ==
  {l \in listeners : ~(l[2] \in Handlers(t) /\ l[1] \in fx.removes)}

\* callback(compass) of CompassPopup, setDeviceHeading(heading), in the
\* sessions inv; the setter is called whether or not the popup is still open
callback(inv, source, heading) ==
  /\ deviceHeading' = [s \in Sessions |->
                         IF s \in inv THEN heading ELSE deviceHeading[s]]
  /\ active' = [s \in Sessions |->
                  IF s \in inv /\ active[s] = "none" THEN source ELSE active[s]]
  /\ lastSource' = [s \in Sessions |-> IF s \in inv THEN source ELSE lastSource[s]]
  /\ invoked' = inv

\* a deviceorientationabsolute event is dispatched on window and handled by
\* the listeners attached for it
DispatchAbsolute(e) ==
  /\ Handlers(ABS) # {}
  /\ listeners' = Detach(ABS, absoluteListener(e))
  /\ callback(Invoked(ABS, absoluteListener(e)), "absolute", absoluteListener(e).compass)
  /\ calls' = absoluteListenerCalls(e)
  /\ lastOp' = Op("absolute", 0)
  /\ UNCHANGED <<platform, stage, cleanup, perm, isSupported, cleanups,
                 addCalls>>
  /\ UNCHANGED nonCompassVars

\* a deviceorientation event is dispatched on window and handled by the
\* listeners attached for it
DispatchWebkit(e) ==
  /\ Handlers(WK) # {}
  /\ listeners' = Detach(WK, webkitListener(e))
  /\ callback(Invoked(WK, webkitListener(e)), "webkit", webkitListener(e).compass)
  /\ calls' = webkitListenerCalls(e)
  /\ lastOp' = Op("webkit", 0)
  /\ UNCHANGED <<platform, stage, cleanup, perm, isSupported, cleanups,
                 addCalls>>
  /\ UNCHANGED nonCompassVars

\* the cleanup handle of session s is invoked (by React when the popup is
\* unmounted, or by any holder of the handle afterwards)
Cleanup(s) ==
  /\ cleanup[s] = "handle"
  /\ cleanups[s] < MaxCleanups
  /\ listeners' = cleanupHandle(s, listeners)
  /\ cleanups' = [cleanups EXCEPT ![s] = @ + 1]
  /\ stage' = [stage EXCEPT ![s] = "closed"]
  /\ lastOp' = Op("cleanup", s)
  /\ invoked' = {}
  /\ calls' = <<>>
  /\ UNCHANGED <<platform, cleanup, perm, deviceHeading, isSupported, active,
                 lastSource, addCalls>>
  /\ UNCHANGED nonCompassVars

\* a popup whose effect returned no cleanup is unmounted: nothing to run
Unmount(s) ==
  /\ stage[s] = "open"
  /\ cleanup[s] # "handle"
  /\ stage' = [stage EXCEPT ![s] = "closed"]
  /\ lastOp' = Op("unmount", s)
  /\ invoked' = {}
  /\ calls' = <<>>
  /\ UNCHANGED <<platform, cleanup, perm, listeners, deviceHeading, isSupported,
                 active, lastSource, cleanups, addCalls>>
  /\ UNCHANGED nonCompassVars

Next ==
  \/ \E s \in Sessions : Mount(s)
  \/ \E s \in Sessions : \E r \in {"granted", "denied"} : PermissionResolved(s, r)
  \/ \E s \in Sessions : PermissionRejected(s)
  \/ \E e \in AbsoluteEvents : DispatchAbsolute(e)
  \/ \E e \in WebkitEvents : DispatchWebkit(e)
  \/ \E s \in Sessions : Cleanup(s)
  \/ \E s \in Sessions : Unmount(s)

Spec == Init /\ [][Next]_vars

\* --------------------------------------- absoluteListener taken on its own
InitHeading ==
  /\ hasAPI = TRUE
  /\ hasRequestPermission = FALSE
  /\ InitPopups
  /\ sample \in HeadingSamples
  /\ handled = Dropped
  /\ InitProps
  /\ InitPage
  /\ InitNoCall

\* absoluteListener handles the sample
HandleSample ==
  /\ lastOp = Op("init", 0)
  /\ handled' = absoluteListener(sample)
  /\ lastOp' = Op("absolute", 0)
  /\ UNCHANGED <<sample, platform, stage, cleanup, perm, listeners, deviceHeading,
                 isSupported, active, lastSource, cleanups, addCalls, invoked,
                 calls>>
  /\ UNCHANGED <<rotationVars, homeVars, bearingVars>>

NextHeading == HandleSample

SpecHeading == InitHeading /\ [][NextHeading]_vars

\* ------------------------------------------------------ direction indicator
\* JavaScript's a - b for a finite a
Minus(a, b) ==
  IF b.k = "num" THEN Num(a.v - b.v)
  ELSE IF b.k = "inf" THEN [k |-> "inf", v |-> -b.v]
  ELSE NaN

\* JavaScript's x % m for a positive finite m: the sign of x is kept
Remainder(x, m) ==
  IF x.k = "num"
  THEN Num(IF x.v >= 0 THEN x.v % m ELSE -((-x.v) % m))
  ELSE NaN

\* faulty variant of arrowRotation: the operands are exchanged
arrowRotationReversed(s) ==
  IF deviceHeading[s] # Null
  THEN Minus(deviceHeading[s], Num(stationBearing))
  ELSE Num(stationBearing)

\* const arrowRotation = deviceHeading !== null
\*   ? stationBearing - deviceHeading : stationBearing
arrowRotation(s) ==
  IF deviceHeading[s] # Null
  THEN Minus(Num(stationBearing), deviceHeading[s])
  ELSE Num(stationBearing)

Variants == {"compass-popup", "nearest-police", "quick-actions"}

\* the branch of the render that holds the compass and its arrow:
\*   compass-popup.tsx, quick-actions.tsx   !isSupported ? unavailable : compass
\*   nearest-police.tsx   !isSupported || deviceHeading === null ? unavailable : compass
ArrowShown(v, s) ==
  /\ stage[s] = "open"
  /\ isSupported[s]
  /\ v = "nearest-police" => deviceHeading[s] # Null

\* the angle inside rotate(...deg) of the arrow:
\*   compass-popup.tsx   rotate(${arrowRotation % 360}deg)
\*   the other two       rotate(${arrowRotation}deg)
ArrowTransform(v, s) ==
  IF v = "compass-popup"
  THEN Remainder(arrowRotation(s), FullTurn * Scale)
  ELSE arrowRotation(s)

\* "Waiting for compass data..." is a text of quick-actions.tsx alone
WaitingShown(v, s) ==
  /\ stage[s] = "open"
  /\ isSupported[s]
  /\ v = "quick-actions"
  /\ deviceHeading[s] = Null

\* the stationBearing props and the vendor headings of the indicator taken alone
StationBearings == {0, 45, 359}
RotationHeadings == {Null, PosInf, Deg(0), Deg(10), Deg(350), Deg(450)}
RotationEvents == [webkitCompassHeading : RotationHeadings]
\* the one popup that is shown
Shown == {s \in Sessions : \A u \in Sessions : s <= u}

InitRotation ==
  /\ hasAPI = TRUE
  /\ hasRequestPermission = FALSE
  /\ InitPopups
  /\ sample = Null
  /\ handled = Dropped
  /\ stationBearing \in {b * Scale : b \in StationBearings}
  /\ variant \in Variants
  /\ InitPage
  /\ InitNoCall

NextRotation ==
  \/ \E s \in Shown : Mount(s)
  \/ \E e \in AbsoluteEvents : DispatchAbsolute(e)
  \/ \E e \in RotationEvents : DispatchWebkit(e)
  \/ \E s \in Shown : Cleanup(s)

SpecRotation == InitRotation /\ [][NextRotation]_vars

\* -------------------------------------------------------------- Home page
\* coordinates of a location fix and threat levels of a response
Latitudes == {-34, 0, 52}
Longitudes == {-118, 0, 151}
Positions == Latitudes \X Longitudes
Levels == 1..5
notHomeVars == <<compassVars, headingVars, rotationVars, bearingVars>>

\* faulty variant of catchGeolocation: the error is logged only, as in the
\* outer catch
catchGeolocationLogsOnly ==
  /\ noPermission' = noPermission
  /\ loading' = 0
  /\ pc' = "done"

\* catch (error) { setNoPermission(true) } of the inner try, followed by
\* finally { setLoading(0) } of the outer one
catchGeolocation ==
  /\ noPermission' = TRUE
  /\ loading' = 0
  /\ pc' = "done"

\* faulty variant of HomeMount: without geolocation the finally block is
\* not reached
HomeMountNoFinally ==
  /\ pc = "idle"
  /\ IF hasGeolocation
     THEN /\ geoRequests' = geoRequests + 1
          /\ pc' = "position"
     ELSE /\ pc' = "done"
          /\ UNCHANGED geoRequests
  /\ UNCHANGED <<hasGeolocation, threat, police, data, userLat, userLon,
                 loading, noPermission>>
  /\ UNCHANGED notHomeVars

\* Home's useEffect: fetchData() runs up to its first await, or to its end
\* when navigator has no geolocation
HomeMount ==
  /\ pc = "idle"
  /\ IF hasGeolocation
     THEN /\ geoRequests' = geoRequests + 1
          /\ pc' = "position"
          /\ UNCHANGED loading
     ELSE /\ loading' = 0
          /\ pc' = "done"
          /\ UNCHANGED geoRequests
  /\ UNCHANGED <<hasGeolocation, threat, police, data, userLat, userLon,
                 noPermission>>
  /\ UNCHANGED notHomeVars

\* getCurrentPosition calls resolve: the coordinates are stored and the two
\* fetches of Promise.all are started
PositionResolved(pos) ==
  /\ pc = "position"
  /\ userLat' = Num(pos[1])
  /\ userLon' = Num(pos[2])
  /\ threat' = "pending"
  /\ police' = "pending"
  /\ pc' = "fetch"
  /\ UNCHANGED <<hasGeolocation, geoRequests, data, loading, noPermission>>
  /\ UNCHANGED notHomeVars

\* getCurrentPosition calls reject (denied, unavailable or timed out)
PositionRejected ==
  /\ pc = "position"
  /\ catchGeolocation
  /\ UNCHANGED <<hasGeolocation, geoRequests, threat, police, data, userLat,
                 userLon>>
  /\ UNCHANGED notHomeVars

\* faulty variant of AfterPromiseAll: a failed fetch is caught by the outer
\* catch, which logs it
AfterPromiseAllOuterCatch(ok, other) ==
  IF pc # "fetch" THEN UNCHANGED <<pc, loading, noPermission>>
  ELSE IF ~ok THEN loading' = 0 /\ pc' = "done" /\ UNCHANGED noPermission
  ELSE IF other = "ok" THEN pc' = "json" /\ UNCHANGED <<loading, noPermission>>
  ELSE UNCHANGED <<pc, loading, noPermission>>

\* what fetchData does when one promise of Promise.all settles while the
\* other is in state other: it is resumed when the first rejects or when both
\* are fulfilled, and not at all once it has left the await
AfterPromiseAll(ok, other) ==
  IF pc # "fetch" THEN UNCHANGED <<pc, loading, noPermission>>
  ELSE IF ~ok THEN catchGeolocation
  ELSE IF other = "ok" THEN pc' = "json" /\ UNCHANGED <<loading, noPermission>>
  ELSE UNCHANGED <<pc, loading, noPermission>>

\* the threat-level fetch settles
ThreatSettled(ok) ==
  /\ threat = "pending"
  /\ threat' = IF ok THEN "ok" ELSE "failed"
  /\ AfterPromiseAll(ok, police)
  /\ UNCHANGED <<hasGeolocation, geoRequests, police, data, userLat, userLon>>
  /\ UNCHANGED notHomeVars

\* the police-station lookup settles
PoliceSettled(ok) ==
  /\ police = "pending"
  /\ police' = IF ok THEN "ok" ELSE "failed"
  /\ AfterPromiseAll(ok, threat)
  /\ UNCHANGED <<hasGeolocation, geoRequests, threat, data, userLat, userLon>>
  /\ UNCHANGED notHomeVars

\* faulty variant of JsonSettled: the result is stored before the station is
\* read
JsonSettledStoresFirst(ok, level, wellFormed) ==
  /\ pc = "json"
  /\ IF ok /\ wellFormed
     THEN /\ data' = [level |-> level, nearestPoliceStation |-> "station"]
          /\ loading' = 0
          /\ pc' = "done"
          /\ UNCHANGED noPermission
     ELSE /\ catchGeolocation
          /\ data' = IF ok THEN [level |-> level, nearestPoliceStation |-> "none"]
                     ELSE data
  /\ UNCHANGED <<hasGeolocation, geoRequests, threat, police, userLat, userLon>>
  /\ UNCHANGED notHomeVars

\* response.json() settles; when it is fulfilled with a threat level and the
\* station has the fields read from it, the result is stored, otherwise the
\* error is caught
JsonSettled(ok, level, wellFormed) ==
  /\ pc = "json"
  /\ IF ok /\ wellFormed
     THEN /\ data' = [level |-> level, nearestPoliceStation |-> "station"]
          /\ loading' = 0
          /\ pc' = "done"
          /\ UNCHANGED noPermission
     ELSE /\ catchGeolocation
          /\ UNCHANGED data
  /\ UNCHANGED <<hasGeolocation, geoRequests, threat, police, userLat, userLon>>
  /\ UNCHANGED notHomeVars

\* the screen Home renders
Screen ==
  IF noPermission THEN "PermissionDenied"
  ELSE IF loading = 1 THEN "Skeleton"
  ELSE "main"

\* faulty variant of DisplayedLevel: no fallback
DisplayedLevelNoFallback == IF data = Null THEN Null ELSE Num(data.level)

\* the props of the main view: data?.level ?? 5, userLat ?? 0, userLon ?? 0
DisplayedLevel == IF data = Null THEN Num(5) ELSE Num(data.level)
MapUserLat == IF userLat = Null THEN Num(0) ELSE userLat
MapUserLon == IF userLon = Null THEN Num(0) ELSE userLon

InitHome ==
  /\ hasAPI = TRUE
  /\ hasRequestPermission = FALSE
  /\ InitPopups
  /\ sample = Null
  /\ handled = Dropped
  /\ InitProps
  /\ hasGeolocation \in BOOLEAN
  /\ pc = "idle"
  /\ geoRequests = 0
  /\ threat = "none"
  /\ police = "none"
  /\ data = Null
  /\ userLat = Null
  /\ userLon = Null
  /\ loading = 1
  /\ noPermission = FALSE
  /\ InitNoCall

NextHome ==
  \/ HomeMount
  \/ \E pos \in Positions : PositionResolved(pos)
  \/ PositionRejected
  \/ \E ok \in BOOLEAN : ThreatSettled(ok)
  \/ \E ok \in BOOLEAN : PoliceSettled(ok)
  \/ \E ok, wellFormed \in BOOLEAN : \E level \in Levels :
       JsonSettled(ok, level, wellFormed)

SpecHome == InitHome /\ [][NextHome]_vars

\* every awaited operation of fetchData settles
PositionSettled == PositionRejected \/ \E pos \in Positions : PositionResolved(pos)
FetchesSettle ==
  /\ WF_vars(HomeMount)
  /\ WF_vars(PositionSettled)
  /\ WF_vars(\E ok \in BOOLEAN : ThreatSettled(ok))
  /\ WF_vars(\E ok \in BOOLEAN : PoliceSettled(ok))
  /\ WF_vars(\E ok, wellFormed \in BOOLEAN : \E level \in Levels :
               JsonSettled(ok, level, wellFormed))
SpecHomeSettling == SpecHome /\ FetchesSettle

\* ---------------------------------------------------------------- bearing
\* Angles in degrees are integers; an angle in radians is an integer number
\* of pi/4; sines and cosines are taken where they are integers, at the
\* multiples of pi/2.

\* (degrees * Math.PI) / 180
toRadians(degrees) == (degrees * 4) \div HalfTurn
\* (radians * 180) / Math.PI
toDegrees(radians) == (radians * HalfTurn) \div 4

\* Math.sin and Math.cos at a multiple of pi/2
sin(r) == CASE r % 8 = 0 -> 0 [] r % 8 = 2 -> 1 [] r % 8 = 4 -> 0 [] r % 8 = 6 -> -1
cos(r) == CASE r % 8 = 0 -> 1 [] r % 8 = 2 -> 0 [] r % 8 = 4 -> -1 [] r % 8 = 6 -> 0

\* faulty variant of atan2: no angle where both arguments are zero
atan2Undefined(y, x) ==
  CASE y = 0 /\ x > 0 -> Num(0)
    [] y > 0 /\ x = 0 -> Num(2)
    [] y = 0 /\ x < 0 -> Num(4)
    [] y < 0 /\ x = 0 -> Num(-2)
    [] OTHER -> NaN

\* Math.atan2 on the axes and at the origin, where it returns 0
atan2(y, x) ==
  CASE y = 0 /\ x >= 0 -> Num(0)
    [] y > 0 /\ x = 0 -> Num(2)
    [] y = 0 /\ x < 0 -> Num(4)
    [] y < 0 /\ x = 0 -> Num(-2)

\* the two arguments of atan2 from the sines and cosines
bearingY(sinDLng, cosDestLat) == sinDLng * cosDestLat
bearingX(cosStartLat, sinStartLat, cosDestLat, sinDestLat, cosDLng) ==
  cosStartLat * sinDestLat - sinStartLat * cosDestLat * cosDLng

\* faulty variant of normalise: the remainder alone
normaliseRemainderOnly(theta) ==
  IF theta.k = "num" THEN Remainder(theta, FullTurn) ELSE NaN

\* (brng + 360) % 360
normalise(theta) ==
  IF theta.k = "num" THEN Remainder(Num(theta.v + FullTurn), FullTurn) ELSE NaN

\* faulty variant of bearingAngle: the arguments of atan2 are exchanged
bearingAngleExchanged(startLat, startLng, destLat, destLng) ==
  atan2(bearingX(cos(startLat), sin(startLat), cos(destLat), sin(destLat),
                 cos(destLng - startLng)),
        bearingY(sin(destLng - startLng), cos(destLat)))

\* lines 20-24 of bearing, on radians: Math.atan2(y, x)
bearingAngle(startLat, startLng, destLat, destLng) ==
  atan2(bearingY(sin(destLng - startLng), cos(destLat)),
        bearingX(cos(startLat), sin(startLat), cos(destLat), sin(destLat),
                 cos(destLng - startLng)))

\* bearing(startLat, startLng, destLat, destLng)
bearing(startLat, startLng, destLat, destLng) ==
  LET theta == bearingAngle(toRadians(startLat), toRadians(startLng),
                            toRadians(destLat), toRadians(destLng))
  IN normalise(IF theta.k = "num" THEN Num(toDegrees(theta.v)) ELSE theta)

\* the coordinates bearing is called with
GridLatitudes == {-90, 0, 90}
GridLongitudes == {-180, -90, 0, 90, 180}
Routes == [startLat : GridLatitudes, startLng : GridLongitudes,
           destLat : GridLatitudes, destLng : GridLongitudes]

InitBearing ==
  /\ hasAPI = TRUE
  /\ hasRequestPermission = FALSE
  /\ InitPopups
  /\ sample = Null
  /\ handled = Dropped
  /\ InitProps
  /\ InitPage
  /\ route \in Routes
  /\ brng = Null

\* bearing is called with the coordinates of route
CallBearing ==
  /\ brng = Null
  /\ brng' = bearing(route.startLat, route.startLng, route.destLat, route.destLng)
  /\ UNCHANGED <<route, compassVars, headingVars, rotationVars, homeVars>>

NextBearing == CallBearing

SpecBearing == InitBearing /\ [][NextBearing]_vars

\* ================================================================= claims
\* the listeners of session s, and those of them that are attached
Own(s) == {<<ABS, s>>, <<WK, s>>}
Attached(s) == listeners \cap Own(s)
\* a finite number, as Number.isFinite would have it
IsFinite(x) == x.k = "num"
\* the full turn in fixed-point units
Turn == FullTurn * Scale
InRange(h) == IsFinite(h) /\ 0 <= h.v /\ h.v < Turn

\* C1: once the cleanup handle of a session has been invoked, neither of the
\* session's listeners is attached in any later state and its callback is
\* not invoked again, also when cleanup ran while the permission request was
\* pending.
C1_CleanupReleasesOnEveryPath ==
  \A s \in Sessions : cleanups[s] > 0 => Attached(s) = {} /\ s \notin invoked

\* C2: once a source has delivered a valid sample in a session, the other
\* source's listener is detached and every callback of the session comes
\* from the source that delivered first.
Loser(source) == IF source = "absolute" THEN WK ELSE ABS
C2_FirstSourceStaysActive ==
  \A s \in Sessions :
    active[s] # "none" =>
      /\ <<Loser(active[s]), s>> \notin listeners
      /\ lastSource[s] = active[s]

\* an absolute event was dispatched after the vendor source had won, and the
\* session, still listening to the vendor source, got no callback from it
C2_Witness ==
  \E s \in Sessions :
    /\ active[s] = "webkit"
    /\ <<WK, s>> \in listeners
    /\ lastOp.op = "absolute"
    /\ s \notin invoked

\* C3: with requestPermission, a started session has requested permission
\* and has no listener and no callback before the request resolves with
\* "granted"; without it both listeners are attached when
\* startCompassListener returns.
C3_PermissionGate ==
  \A s \in Sessions :
    /\ hasRequestPermission /\ stage[s] # "idle" => perm[s] # "none"
    /\ hasRequestPermission /\ perm[s] # "granted" =>
         Attached(s) = {} /\ active[s] = "none" /\ s \notin invoked
    /\ hasAPI /\ ~hasRequestPermission /\ lastOp = Op("mount", s) =>
         Own(s) \subseteq listeners

\* a sensor event reached another session's callback while this session's
\* request was pending
C3_Witness ==
  \E s \in Sessions :
    /\ hasRequestPermission
    /\ perm[s] = "pending"
    /\ lastOp.op \in {"absolute", "webkit"}
    /\ invoked # {}

\* C4: a permission response other than "granted" leaves the session
\* without listeners and callbacks, and the popup reports unsupported.
C4_DeniedIsUnsupported ==
  \A s \in Sessions :
    perm[s] = "denied" =>
      Attached(s) = {} /\ active[s] = "none" /\ isSupported[s] = FALSE

\* C5: the cleanup handle can be invoked in every state of a session, a
\* second invocation changes nothing the first left, and after an invocation
\* none of the session's listeners is attached.
C5_CleanupIdempotent ==
  \A s \in Sessions :
    cleanup[s] = "handle" =>
      LET once == cleanupHandle(s, listeners) IN
      /\ cleanupHandle(s, once) = once
      /\ once \cap Own(s) = {}
      /\ cleanups[s] < MaxCleanups => ENABLED Cleanup(s)
      /\ lastOp = Op("cleanup", s) => Attached(s) = {}

\* the handle of a session has just been invoked for the second time
C5_Witness ==
  \E s \in Sessions : cleanups[s] >= 2 /\ lastOp = Op("cleanup", s)

\* C6: without the DeviceOrientationEvent API startCompassListener returns
\* null, attaches nothing and requests nothing, and a mounted popup reports
\* unsupported for as long as it exists.
C6_AbsentAPIUnsupported ==
  ~hasAPI =>
    /\ listeners = {}
    /\ \A s \in Sessions :
         /\ startCompassListener(s, hasAPI, hasRequestPermission)
              = [cleanup |-> "null", perm |-> "none", adds |-> {}]
         /\ perm[s] = "none"
         /\ active[s] = "none"
         /\ stage[s] # "idle" => isSupported[s] = FALSE /\ cleanup[s] # "handle"

\* a popup was mounted without the API and another one closed again
C6_Witness ==
  \E s, u \in Sessions :
    ~hasAPI /\ lastOp = Op("mount", s) /\ stage[u] = "closed"

\* C7: an absolute-orientation event without the absolute flag, or with
\* alpha, beta or gamma missing, invokes no callback and changes neither
\* the listeners nor the stored heading nor the active source.
MalformedAbsolute(e) ==
  ~e.absolute \/ IsNullish(e.alpha) \/ IsNullish(e.beta) \/ IsNullish(e.gamma)
C7_MalformedAbsoluteDropped ==
  [][lastOp'.op = "absolute" =>
       \/ /\ invoked' = {}
          /\ UNCHANGED <<listeners, deviceHeading, active, lastSource>>
       \/ \A e \in AbsoluteEvents :
            ~(MalformedAbsolute(e) /\ DispatchAbsolute(e))]_vars

\* an absolute event was handled by a session that got no callback and still
\* has both listeners attached
C7_Witness ==
  \E s \in Sessions :
    /\ lastOp.op = "absolute"
    /\ Own(s) \subseteq listeners
    /\ s \notin invoked

\* C8: a vendor event invokes the callback only with a finite heading.
C8_OnlyFiniteVendorHeading ==
  \A s \in Sessions :
    lastOp.op = "webkit" /\ s \in invoked => IsFinite(deviceHeading[s])

\* C9: every heading passed to the callback lies in [0, 360), so the stored
\* deviceHeading is null or in [0, 360).
C9_HeadingInRange ==
  \A s \in Sessions : deviceHeading[s] = Null \/ InRange(deviceHeading[s])

\* C10: for a valid absolute sample the heading is raw - floor(raw/360)*360
\* with raw = -(alpha + beta*gamma/90): congruent to raw modulo 360, in
\* [0, 360), and 0 for alpha = beta = gamma = 0.
Raw(e) == -(e.alpha.v * Scale + e.beta.v * e.gamma.v)
Floor(a, b) == CHOOSE q \in -4..4 : q * b <= a /\ a < (q + 1) * b
C11_RotationOfBearingAndHeading ==
  \A s \in Sessions :
    /\ deviceHeading[s] = Null => arrowRotation(s) = Num(stationBearing)
    /\ IsFinite(deviceHeading[s]) =>
         arrowRotation(s) = Num(stationBearing - deviceHeading[s].v)
    /\ stationBearing = 45 * Scale /\ deviceHeading[s] = Deg(10) =>
         arrowRotation(s) = Deg(35)

\* bearing 45 with a delivered heading of 10
C11_Witness ==
  \E s \in Sessions :
    stationBearing = 45 * Scale /\ deviceHeading[s] = Deg(10) /\ s \in invoked

\* C12: the angle given to the arrow's rotate transform is exactly the
\* computed rotation, with no wrap or reduction applied to it.
C12_TransformIsRotation ==
  \A s \in Sessions :
    ArrowShown(variant, s) => ArrowTransform(variant, s) = arrowRotation(s)

\* C13: with the sensor API present, the popup supported and no heading sample
\* yet, the popup shows the arrow at the raw station bearing together with a
\* waiting-for-sensor affordance.
C13_ArrowShownWhileWaiting ==
  \A s \in Sessions :
    hasAPI /\ stage[s] = "open" /\ isSupported[s] /\ deviceHeading[s] = Null =>
      /\ ArrowShown(variant, s)
      /\ ArrowTransform(variant, s) = Num(stationBearing)
      /\ WaitingShown(variant, s)

\* what a step leaves alone in session u when it is not u's step
Untouched(u) ==
  /\ Attached(u)' = Attached(u)
  /\ deviceHeading'[u] = deviceHeading[u]
  /\ active'[u] = active[u]
  /\ u \notin invoked'

\* a dispatch of an event of type t is handled by the sessions attached for t
\* alone: the others are left as they were, and a handling session loses
\* listeners of its own only
OwnHandlersOnly(t) ==
  /\ invoked' \subseteq Handlers(t)
  /\ \A u \in Sessions \ Handlers(t) : Untouched(u)
  /\ \A u \in Handlers(t) : Attached(u)' \subseteq Attached(u)

\* C14: two sessions do not interfere: a cleanup in one session, and a step in
\* which one session's first source detaches its other listener, remove that
\* session's own listeners only, and a callback is invoked only for samples
\* handled by a listener of its own session.
C14_SessionsDoNotInterfere ==
  [][/\ \A s \in Sessions :
          lastOp' = Op("cleanup", s) => \A u \in Sessions \ {s} : Untouched(u)
     /\ lastOp'.op = "absolute" => OwnHandlersOnly(ABS)
     /\ lastOp'.op = "webkit" => OwnHandlersOnly(WK)]_vars

\* one session settled on the absolute source and still holds its listener
\* right after another session's vendor sample detached that session's own
\* absolute listener
C14_Witness ==
  \E s, u \in Sessions :
    /\ s # u
    /\ active[s] = "absolute" /\ <<ABS, s>> \in listeners
    /\ lastOp.op = "webkit" /\ invoked = {u}
    /\ active[u] = "webkit" /\ <<ABS, u>> \notin listeners

\* C15: when the location request fails the page enters the no-permission
\* state and stays there: noPermission is set and never reset, the location is
\* requested at most once, and PermissionDenied is the screen of every state
\* with noPermission, whatever the loading flag.
C15_NoPermissionIsFinal ==
  [][/\ PositionRejected => noPermission'
     /\ noPermission => noPermission'
     /\ noPermission' => Screen' = "PermissionDenied"
     /\ geoRequests' <= 1]_vars

\* the location request was rejected
C15_Witness ==
  noPermission /\ geoRequests = 1 /\ userLat = Null /\ pc = "done"

\* the range of Math.atan2 in whole degrees
AtanRange == (-HalfTurn)..HalfTurn

\* C16: bearing returns r with 0 <= r < 360: the angle of atan2 in degrees, a
\* value of [-180, 180], is mapped into [0, 360) by (theta + 360) mod 360.
C16_BearingInRange ==
  /\ brng # Null => IsFinite(brng) /\ 0 <= brng.v /\ brng.v < FullTurn
  /\ \A theta \in AtanRange :
       LET r == normalise(Num(theta)) IN
         /\ IsFinite(r) /\ 0 <= r.v /\ r.v < FullTurn
         /\ (r.v - theta) % FullTurn = 0

\* a bearing to the west: atan2 returned -90 degrees
C16_Witness ==
  /\ brng = Num(270)
  /\ route.startLat = 0 /\ route.destLat = 0
  /\ route.destLng - route.startLng = -90

\* C17: bearing(lat, lon, lat, lon) is 0: with observer and target at the
\* same place both arguments of atan2 are zero and the result is the number 0.
C17_BearingToSelfIsZero ==
  /\ brng # Null /\ route.startLat = route.destLat
                 /\ route.startLng = route.destLng => brng = Num(0)
  /\ \A s, c \in -2..2 :
       /\ bearingY(0, c) = 0
       /\ bearingX(c, s, c, s, 1) = 0
       /\ normalise(atan2(bearingY(0, c), bearingX(c, s, c, s, 1))) = Num(0)

\* bearing was called with the same place twice, away from the equator
C17_Witness ==
  /\ brng # Null
  /\ route.startLat = route.destLat /\ route.startLng = route.destLng
  /\ route.startLat # 0 /\ route.startLng # 0

\* C18: bearing is the initial great-circle bearing atan2(y, x) with
\* y = sin(dLon) cos(lat2) and x = cos(lat1) sin(lat2) - sin(lat1) cos(lat2)
\* cos(dLon): bearing(0, 0, 0, 90) is 90 and bearing(0, 0, 90, 0) is 0.
C18_GreatCircleFixtures ==
  brng # Null =>
    /\ route = [startLat |-> 0, startLng |-> 0, destLat |-> 0, destLng |-> 90]
         => brng = Num(90)
    /\ route = [startLat |-> 0, startLng |-> 0, destLat |-> 90, destLng |-> 0]
         => brng = Num(0)
    \* from the equator: east, west, north and south
    /\ route.startLat = 0 /\ route.destLat = 0
         /\ (route.destLng - route.startLng) % FullTurn = 90 => brng = Num(90)
    /\ route.startLat = 0 /\ route.destLat = 0
         /\ (route.destLng - route.startLng) % FullTurn = 270 => brng = Num(270)
    /\ route.startLat = 0 /\ route.destLat = 90 => brng = Num(0)
    /\ route.startLat = 0 /\ route.destLat = -90 => brng = Num(180)

\* bearing(0, 0, 0, 90) was called
C18_Witness ==
  /\ brng = Num(90)
  /\ route = [startLat |-> 0, startLng |-> 0, destLat |-> 0, destLng |-> 90]

\* a sample the adapter is to deliver: an absolute event with the flag and
\* all three angles, a vendor event with a finite heading
ValidAbsolute(e) == ~MalformedAbsolute(e)
ValidWebkit(e) == IsFinite(e.webkitCompassHeading)
SourceType(source) == IF source = "absolute" THEN ABS ELSE WK

\* C19: every event handled by an attached listener invokes the callback of
\* its session once when the sample is valid and not at all otherwise, and
\* the listener of a session's first source stays attached, through every
\* later sample, until the cleanup handle of the session is invoked.
C19_OncePerValidSample ==
  [][/\ \A e \in AbsoluteEvents :
          DispatchAbsolute(e) =>
            invoked' = IF ValidAbsolute(e) THEN Handlers(ABS) ELSE {}
     /\ \A e \in WebkitEvents :
          DispatchWebkit(e) =>
            invoked' = IF ValidWebkit(e) THEN Handlers(WK) ELSE {}
     /\ \A s \in Sessions :
          /\ active[s] # "none"
          /\ <<SourceType(active[s]), s>> \in listeners
          /\ ~Cleanup(s)
          => <<SourceType(active[s]), s>> \in listeners']_vars

\* C20: the stored deviceHeading is the heading of the latest valid sample
\* delivered to the session, or null before the first: a valid sample handled
\* by the session replaces it, every other step keeps it, and it never goes
\* back to null.
C20_LatestValidSample ==
  [][\A s \in Sessions :
       /\ \A e \in AbsoluteEvents :
            DispatchAbsolute(e) =>
              deviceHeading'[s] = IF s \in Handlers(ABS) /\ ValidAbsolute(e)
                                  THEN Num(Wrap(RawCompass(e)))
                                  ELSE deviceHeading[s]
       /\ \A e \in WebkitEvents :
            DispatchWebkit(e) =>
              deviceHeading'[s] = IF s \in Handlers(WK) /\ ValidWebkit(e)
                                  THEN e.webkitCompassHeading
                                  ELSE deviceHeading[s]
       /\ lastOp'.op \notin {"absolute", "webkit"} =>
            deviceHeading'[s] = deviceHeading[s]
       /\ deviceHeading[s] # Null => deviceHeading'[s] # Null]_vars

\* C21: addListeners runs at most once in a session, so the session has at
\* most one listener of each type, and once a sample has been delivered to
\* it at most one listener in all, that of its first source.
C21_AttachedAtMostOnce ==
  \A s \in Sessions :
    /\ addCalls[s] <= 1
    /\ Attached(s) # {} => addCalls[s] = 1
    /\ \A t \in EventTypes : Cardinality({l \in Attached(s) : l[1] = t}) <= 1
    /\ active[s] # "none" =>
         /\ Cardinality(Attached(s)) <= 1
         /\ Attached(s) \subseteq {<<SourceType(active[s]), s>>}

\* a session that attached after a grant, got an absolute sample and still
\* holds the absolute listener alone
C21_Witness ==
  \E s \in Sessions :
    /\ perm[s] = "granted" /\ addCalls[s] = 1
    /\ active[s] = "absolute" /\ Attached(s) = {<<ABS, s>>}
    /\ s \in invoked

\* the popup of session s is open with both listeners attached and shows no
\* heading yet
Waiting(s) ==
  /\ stage[s] = "open"
  /\ Own(s) \subseteq listeners
  /\ deviceHeading[s] = Null
  /\ isSupported[s]

\* C22: nothing but a valid sample or the caller's cleanup ends the waiting
\* of a session: while its listeners are attached and no valid sample has
\* arrived, deviceHeading stays null, isSupported stays true and both
\* listeners stay attached, whatever else happens.
C22_WaitingUntilSampleOrClose ==
  [][\A s \in Sessions :
       /\ Waiting(s)
       /\ lastOp' # Op("cleanup", s)
       /\ ~(\E e \in AbsoluteEvents : ValidAbsolute(e) /\ DispatchAbsolute(e))
       /\ ~(\E e \in WebkitEvents : ValidWebkit(e) /\ DispatchWebkit(e))
       => Waiting(s)']_vars

\* C27: on a delivered absolute sample the vendor listener is detached
\* before the callback is invoked, on a delivered vendor sample the callback
\* is invoked before the absolute listener is detached; the other listener of
\* a session is gone when its first delivered sample has been handled, and on
\* every later delivered sample the detachment is made again and removes
\* nothing.
C27_DetachAndDeliverOrder ==
  [][/\ lastOp'.op = "absolute" /\ invoked' # {} =>
          calls' = <<Remove(WK), Callback>>
     /\ lastOp'.op = "webkit" /\ invoked' # {} =>
          calls' = <<Callback, Remove(ABS)>>
     /\ \A s \in invoked' :
          /\ <<Loser(active'[s]), s>> \notin listeners'
          /\ active[s] # "none" => Attached(s)' = Attached(s)]_vars

\* an absolute sample was delivered to a session settled on the absolute
\* source: detachment, then callback, and its absolute listener alone remains
C27_Witness ==
  \E s \in invoked :
    /\ lastOp.op = "absolute"
    /\ lastSource[s] = "absolute" /\ active[s] = "absolute"
    /\ calls = <<Remove(WK), Callback>>
    /\ Attached(s) = {<<ABS, s>>}

\* C28: a session whose permission request was rejected has no listener
\* attached and no callback invoked; its cleanup handle exists and changes
\* nothing, isSupported is true and deviceHeading null, as in a session that
\* waits for its first sample.
C28_RejectionLeavesWaiting ==
  \A s \in Sessions :
    perm[s] = "rejected" =>
      /\ Attached(s) = {} /\ addCalls[s] = 0
      /\ s \notin invoked /\ active[s] = "none"
      /\ cleanup[s] = "handle" /\ cleanupHandle(s, listeners) = listeners
      /\ isSupported[s] /\ deviceHeading[s] = Null

\* the request of an open popup was rejected and its handle has been invoked
C28_Witness ==
  \E s \in Sessions :
    perm[s] = "rejected" /\ cleanups[s] > 0 /\ lastOp = Op("cleanup", s)

\* a fetch, the parsing of its response or the station lookup fails after the
\* location fix
FailsAfterFix ==
  \/ pc = "fetch" /\ (ThreatSettled(FALSE) \/ PoliceSettled(FALSE))
  \/ \E ok, wellFormed \in BOOLEAN : \E level \in Levels :
       ~(ok /\ wellFormed) /\ JsonSettled(ok, level, wellFormed)

\* C23: once the location fix has stored userLat and userLon, a failure of the
\* threat-level fetch, of its JSON parsing or of the station lookup sets
\* noPermission, and the page shows PermissionDenied with the coordinates
\* still stored.
C23_FetchFailureIsNoPermission ==
  [][FailsAfterFix =>
       /\ userLat # Null /\ userLon # Null
       /\ noPermission' /\ Screen' = "PermissionDenied"
       /\ userLat' = userLat /\ userLon' = userLon]_vars

\* the threat-level fetch failed after a location fix
C23_Witness ==
  noPermission /\ userLat # Null /\ threat = "failed" /\ pc = "done"

\* C24: data is non-null only when noPermission is false: setData is the last
\* step of the successful path. userLat and userLon can be set together with
\* noPermission: while the fetches are awaited they are set and a failure is
\* still possible.
C24_DataExcludesNoPermission ==
  /\ data # Null => ~noPermission /\ pc = "done" /\ loading = 0
  /\ noPermission => data = Null
  /\ pc = "json" =>
       /\ userLat # Null
       /\ ENABLED (JsonSettled(FALSE, 1, TRUE) /\ noPermission' /\ userLat' # Null)

\* the data of a successful load is stored
C24_Witness ==
  data # Null /\ userLat # Null /\ ~noPermission /\ threat = "ok" /\ police = "ok"

\* C25: when every awaited operation settles, loading eventually is 0 and
\* stays 0, on every path; while the location request has not called back
\* loading is 1 and the Skeleton is shown, and only its callback ends that.
C25_LoadingEnds ==
  /\ <>[](loading = 0)
  /\ [](pc = "position" => loading = 1 /\ Screen = "Skeleton")
  /\ [][/\ loading = 0 => loading' = 0
        /\ pc = "position" /\ pc' # "position" => PositionSettled]_vars

\* loading ended on the path without geolocation
C25_Witness ==
  loading = 0 /\ pc = "done" /\ geoRequests = 0 /\ Screen = "main"

\* C26: without the geolocation API Home requests no location and starts no
\* fetch, noPermission stays false and data null, and once loading is 0 the
\* main view is shown with threat level 5 and coordinates (0, 0); whenever
\* data is null the threat level given to the view is 5.
C26_MissingGeolocationFallback ==
  /\ ~hasGeolocation =>
       /\ geoRequests = 0 /\ threat = "none" /\ police = "none"
       /\ ~noPermission /\ data = Null
       /\ loading = 0 =>
            /\ Screen = "main"
            /\ DisplayedLevel = Num(5)
            /\ MapUserLat = Num(0) /\ MapUserLon = Num(0)
  /\ data = Null => DisplayedLevel = Num(5)

\* the effect has run on a platform without geolocation
C26_Witness ==
  ~hasGeolocation /\ loading = 0 /\ pc = "done" /\ DisplayedLevel = Num(5)

====
